---- MODULE Spec2Model ----
(***************************************************************************)
(* Model of the OpenInvoice ledger API as implemented by                   *)
(* frontend/src/api/mock.ts: the invoice store, the invoice counter and    *)
(* the asynchronous handlers invoices_create, invoices_process_return and  *)
(* hash_chain_verify.                                                      *)
(*                                                                         *)
(* Representation.                                                         *)
(*  - A JavaScript string is a sequence of one-character strings, so that  *)
(*    padStart, toString(16), slice and split are computed, not assumed.   *)
(*  - A JavaScript number that holds money is an integer count of 1/100000 *)
(*    of the currency unit (2.5 is 250000): products of a price with up to *)
(*    three decimals, a quantity and a whole VAT percentage are exact.     *)
(*  - Date.now() is a count of milliseconds since the created_at of the    *)
(*    seeded sample invoice.                                               *)
(*  - Every handler awaits delay(ms) first and then runs to completion     *)
(*    without another await: a call is one step that puts the call in      *)
(*    flight and one step that runs the body.  The timers of delay(ms)     *)
(*    fire in the order they were set, except that a timer may fire before *)
(*    an earlier one whose delay is longer.                                *)
(***************************************************************************)
EXTENDS Integers, Sequences, FiniteSets, TLC

\* ---------------------------------------------------------------- bounds
\* calls made in one behaviour
MaxCalls == 2
\* invoice numbers a return may name: INV-2024-0000 .. INV-2024-<MaxRef>
MaxRef == 1
\* the first reading of the clock, and how far it may advance
ClockStart == 1999
MaxTicks == 1
\* records altered behind the API
MaxTampered == 1
\* calls the user starts from ScanPage in one behaviour
MaxScanCalls == 3
\* calls of the settings store in one behaviour
MaxSettingsCalls == 3
\* units the cart holds at most
MaxCartQuantity == 3

\* ------------------------------------------------------- string helpers
Digits == <<"0", "1", "2", "3", "4", "5", "6", "7", "8", "9",
            "a", "b", "c", "d", "e", "f">>

RECURSIVE toStringRadix(_, _)
\* Number.prototype.toString(radix) / String(n) for a non-negative integer
toStringRadix(n, radix) ==
  IF n < radix THEN <<Digits[n + 1]>>
  ELSE toStringRadix(n \div radix, radix) \o <<Digits[(n % radix) + 1]>>

RECURSIVE padStart(_, _, _)
\* String.prototype.padStart(targetLength, padString) with a 1-char pad
padStart(s, targetLength, ch) ==
  IF Len(s) >= targetLength THEN s ELSE padStart(<<ch>> \o s, targetLength, ch)

\* String.prototype.slice(0, n)
slice(s, n) == SubSeq(s, 1, IF Len(s) < n THEN Len(s) ELSE n)

DigitValue(ch) == CHOOSE d \in 0..9 : Digits[d + 1] = ch

RECURSIVE ParseDecimal(_)
\* the number a string of decimal digits denotes
ParseDecimal(s) ==
  IF s = <<>> THEN 0
  ELSE 10 * ParseDecimal(SubSeq(s, 1, Len(s) - 1)) + DigitValue(s[Len(s)])

RECURSIVE Join(_, _)
\* Array.prototype.join(sep): the template literal of qr_data
Join(parts, sep) ==
  IF Len(parts) = 0 THEN <<>>
  ELSE IF Len(parts) = 1 THEN parts[1]
  ELSE parts[1] \o <<sep>> \o Join(Tail(parts), sep)

RECURSIVE Split(_, _)
\* String.prototype.split(sep) with a 1-char separator
Split(s, sep) ==
  IF \A i \in 1..Len(s) : s[i] # sep THEN <<s>>
  ELSE LET i == CHOOSE j \in 1..Len(s) :
                  /\ s[j] = sep
                  /\ \A e \in 1..(j - 1) : s[e] # sep
       IN <<SubSeq(s, 1, i - 1)>> \o Split(SubSeq(s, i + 1, Len(s)), sep)

\* String.prototype.startsWith(prefix)
startsWith(s, prefix) ==
  Len(s) >= Len(prefix) /\ SubSeq(s, 1, Len(prefix)) = prefix

\* the value of an absent (undefined) string field
Undefined == <<"undefined">>

\* ------------------------------------------------------- number helpers
\* Math.round(x * 100) / 100: half-up to 2 decimals, for x >= 0
Round2(x) == ((x + 500) \div 1000) * 1000

\* Number.prototype.toFixed(2), for x >= 0
toFixed2(x) ==
  LET cents == (x + 500) \div 1000
  IN toStringRadix(cents \div 100, 10) \o <<".">> \o padStart(toStringRadix(cents % 100, 10), 2, "0")

\* -------------------------------------------------------- invoice number
InvoicePrefix == <<"I", "N", "V", "-", "2", "0", "2", "4", "-">>

\* `INV-2024-${String(invoiceCounter).padStart(4, '0')}`
InvoiceNumber(counter) == InvoicePrefix \o padStart(toStringRadix(counter, 10), 4, "0")

\* the sequence part of an invoice number (what follows INV-2024-)
SequencePart(invoiceNumber) ==
  ParseDecimal(SubSeq(invoiceNumber, Len(InvoicePrefix) + 1, Len(invoiceNumber)))

\* the counter left as it was
NextCounter_keep(counter) == counter

\* invoiceCounter++
NextCounter(counter) == counter + 1

\* `mock${Date.now().toString(16)}`
MockHash(ms) == <<"m", "o", "c", "k">> \o toStringRadix(ms, 16)

\* ------------------------------------------------------------ seed data
\* the products of sampleProducts the sample invoice refers to
InitProducts ==
  << [id |-> "PROD001", name |-> "Espresso", price |-> 250000, vat_rate |-> 21,
      status |-> "active"],
     [id |-> "PROD004", name |-> "Croissant", price |-> 200000, vat_rate |-> 21,
      status |-> "active"] >>

SampleQrData ==
  <<"O", "P", "E", "N", "I", "N", "V", "O", "I", "C", "E", "|", "v", "1", "|",
    "I", "N", "V", "-", "2", "0", "2", "4", "-", "0", "0", "0", "1", "|",
    "1", "2", ".", "1", "0", "|",
    "a", "1", "b", "2", "c", "3", "d", "4", "|",
    "1", "7", "0", "6", "7", "4", "5", "6", "0", "0">>

InitInvoices ==
  << [id |-> 1,
      invoice_number |-> InvoicePrefix \o <<"0", "0", "0", "1">>,
      seller_id |-> "SELLER001",
      store_name |-> "Demo Store",
      subtotal |-> 1000000,
      vat_amount |-> 210000,
      total |-> 1210000,
      payment_method |-> "cash",
      previous_hash |-> Undefined,
      current_hash |-> <<"a", "1", "b", "2", "c", "3", "d", "4",
                         "e", "5", "f", "6", "g", "7", "h", "8">>,
      qr_data |-> SampleQrData,
      status |-> "completed",
      created_at |-> 0,
      items |-> << [id |-> 1, invoice_id |-> 1, product_id |-> "PROD001",
                    product_name |-> "Espresso", quantity |-> 2,
                    unit_price |-> 250000, vat_rate |-> 21,
                    line_total |-> 500000, return_status |-> "none"],
                   [id |-> 2, invoice_id |-> 1, product_id |-> "PROD004",
                    product_name |-> "Croissant", quantity |-> 2,
                    unit_price |-> 200000, vat_rate |-> 21,
                    line_total |-> 400000, return_status |-> "none"] >>] >>

InitSettings == [store_name |-> "Demo Store", seller_id |-> "SELLER001"]

\* ---------------------------------------------------------------- state
VARIABLES
  sampleProducts,   \* the product table
  sampleInvoices,   \* the invoice store, in append order
  mockSettings,     \* the settings the assembler copies into a record
  invoiceCounter,   \* the module-level invoice counter
  now,              \* the last value Date.now() returned
  pending,          \* the calls suspended at their await delay(..), in call order
  responses,        \* the responses of the completed calls, in order
  tampered,         \* indices of stored records altered outside the API
  scanPage,         \* the state of ScanPage (its useState values)
  cartStore,        \* the state of the cart store
  settingsStore     \* the state of the settings store

\* the state of the user interface
ui == <<scanPage, cartStore, settingsStore>>

vars == <<sampleProducts, sampleInvoices, mockSettings, invoiceCounter, now,
          pending, responses, tampered, ui>>

\* useState('') .. useState(null) of ScanPage; a value that may be null is a
\* sequence of at most one element
InitScanPage ==
  [inputValue |-> <<>>, isValidating |-> FALSE, result |-> <<>>,
   invoice |-> <<>>, selectedItems |-> {}, isProcessingReturn |-> FALSE,
   returnResult |-> <<>>]

\* the cart store as created
InitCartStore == [items |-> <<>>]

\* the settings store once loadSettings has copied the backend's settings
InitSettingsStore == [settings |-> InitSettings, error |-> <<>>]

Init ==
  /\ sampleProducts = InitProducts
  /\ sampleInvoices = InitInvoices
  /\ mockSettings = InitSettings
  /\ invoiceCounter = Len(InitInvoices)
  /\ now = ClockStart
  /\ pending = <<>>
  /\ responses = <<>>
  /\ tampered = {}
  /\ scanPage = InitScanPage
  /\ cartStore = InitCartStore
  /\ settingsStore = InitSettingsStore

\* ------------------------------------------------------------ the inputs
\* a line names a product of the table, with any quantity, or a product that
\* is not in the table (its quantity is never read)
Quantities == {0, 1}
RequestLines ==
  [product_id : {"PROD001"}, quantity : Quantities]
    \cup {[product_id |-> "PROD999", quantity |-> 1]}
RequestItems == UNION {[1..n -> RequestLines] : n \in {0, 1, 2}}
PaymentMethods == {"cash"}
RequestNumbers == {InvoiceNumber(k) : k \in 0..MaxRef}
RequestItemIds == SUBSET {1, 2}

\* the Product objects products_update is given: a price with 3 decimals or
\* another VAT rate for a product of the table, or a product not in it
ProductUpdates ==
  {[id |-> "PROD001", price |-> 101400],
   [id |-> "PROD001", vat_rate |-> 10],
   [id |-> "PROD999", price |-> 101400]}

\* the key and value settings_update is given, and the Partial<Settings>
\* settings_update_many is given
SettingUpdates == {[key |-> "store_name", value |-> "Corner Store"]}
SettingsUpdates == {[seller_id |-> "SELLER002"]}

\* the fields a scanned payload is made of: the sample invoice's own, or
\* another value in its place
OpenInvoiceTag == <<"O", "P", "E", "N", "I", "N", "V", "O", "I", "C", "E">>
QrTags == {OpenInvoiceTag, <<"I", "N", "V", "O", "I", "C", "E">>}
QrVersions == {<<"v", "1">>, <<"v", "2">>}
QrTotals == {<<"1", "2", ".", "1", "0">>, <<"9", "9", ".", "9", "9">>}
QrHashes == {<<"a", "1", "b", "2", "c", "3", "d", "4">>,
             <<"f", "f", "f", "f", "f", "f", "f", "f">>}
QrTimestamps == {<<"1", "7", "0", "6", "7", "4", "5", "6", "0", "0">>}
QrFields ==
  {<<tag, version, invoiceNumber, total, hash, timestamp>> :
     tag \in QrTags, version \in QrVersions, invoiceNumber \in RequestNumbers,
     total \in QrTotals, hash \in QrHashes, timestamp \in QrTimestamps}
\* the payloads scanned: six fields, or the first five of them
QrPayloads ==
  {Join(f, "|") : f \in QrFields} \cup {Join(SubSeq(f, 1, 5), "|") : f \in QrFields}

\* an async function called: it runs up to its await delay(..) and suspends
Invoke(op, args) ==
  /\ Len(responses) + Len(pending) < MaxCalls
  /\ pending' = Append(pending, [op |-> op, args |-> args])
  /\ UNCHANGED <<sampleProducts, sampleInvoices, mockSettings, invoiceCounter,
                 now, responses, tampered, ui>>

\* the ms each handler passes to delay
Delay(op) ==
  CASE op = "invoices_create" -> 200
    [] op = "invoices_process_return" -> 200
    [] op = "hash_chain_verify" -> 300
    [] op = "qr_validate" -> 200
    [] op = "products_update" -> 100
    [] op = "settings_update" -> 100
    [] op = "settings_update_many" -> 100
    [] op = "invoices_get_by_number" -> 100

\* the timer of the k-th suspended call may fire now: no call suspended
\* before it has a timer at most as long
MayResume(k, op) ==
  /\ k \in 1..Len(pending)
  /\ pending[k].op = op
  /\ \A e \in 1..(k - 1) : Delay(pending[e].op) > Delay(op)

\* the suspended calls other than the k-th
Others(k) == SubSeq(pending, 1, k - 1) \o SubSeq(pending, k + 1, Len(pending))

\* the response the k-th suspended call resolves its promise with
Respond(k, success, error, data) ==
  /\ responses' = Append(responses,
       [op |-> pending[k].op, args |-> pending[k].args,
        inflight |-> Others(k),
        success |-> success, error |-> error, data |-> data])
  /\ pending' = Others(k)

\* ----------------------------------------------------- invoices_create
\* sampleProducts.find((p) => p.id === id): index of the first match, or 0
FindProduct(products, id) ==
  IF \E i \in 1..Len(products) : products[i].id = id
  THEN CHOOSE i \in 1..Len(products) :
         /\ products[i].id = id
         /\ \A j \in 1..(i - 1) : products[j].id # id
  ELSE 0

NewAssembly == [ok |-> TRUE, error |-> <<>>, subtotal |-> 0, vatTotal |-> 0,
                invoiceItems |-> <<>>]

\* one pass of the body of `for (const item of items)`
AddLine(acc, product, item, counter) ==
  LET lineTotal == product.price * item.quantity
      vatAmount == (lineTotal * product.vat_rate) \div 100
  IN [acc EXCEPT
        !.subtotal = acc.subtotal + lineTotal,
        !.vatTotal = acc.vatTotal + vatAmount,
        !.invoiceItems = Append(acc.invoiceItems,
           [id |-> Len(acc.invoiceItems) + 1,
            invoice_id |-> counter,
            product_id |-> product.id,
            product_name |-> product.name,
            quantity |-> item.quantity,
            unit_price |-> product.price,
            vat_rate |-> product.vat_rate,
            line_total |-> lineTotal,
            return_status |-> "none"])]

RECURSIVE Assemble_skip(_, _, _, _, _)
\* the loop with `continue` in place of the early return
Assemble_skip(products, items, i, counter, acc) ==
  IF i > Len(items) THEN acc
  ELSE LET p == FindProduct(products, items[i].product_id)
       IN IF p = 0
          THEN Assemble_skip(products, items, i + 1, counter, acc)
          ELSE Assemble_skip(products, items, i + 1, counter,
                             AddLine(acc, products[p], items[i], counter))

RECURSIVE Assemble(_, _, _, _, _)
\* the loop over the requested lines, from line i on: it returns at the
\* first product id that does not resolve
Assemble(products, items, i, counter, acc) ==
  IF i > Len(items) THEN acc
  ELSE LET p == FindProduct(products, items[i].product_id)
       IN IF p = 0
          THEN [acc EXCEPT !.ok = FALSE,
                           !.error = <<"Product not found", items[i].product_id>>]
          ELSE Assemble(products, items, i + 1, counter,
                        AddLine(acc, products[p], items[i], counter))

\* the Invoice object built after the loop; t1, t2, t3 are the three
\* readings of the clock (new Date(), Date.now(), Date.now())
NewInvoice(counter, asm, paymentMethod, settings, t1, t2, t3) ==
  LET total == asm.subtotal + asm.vatTotal
      hash == MockHash(t2)
      invoiceNumber == InvoiceNumber(counter)
  IN [id |-> counter,
      invoice_number |-> invoiceNumber,
      seller_id |-> settings.seller_id,
      store_name |-> settings.store_name,
      subtotal |-> Round2(asm.subtotal),
      vat_amount |-> Round2(asm.vatTotal),
      total |-> Round2(total),
      payment_method |-> paymentMethod,
      previous_hash |-> Undefined,
      current_hash |-> hash,
      qr_data |-> Join(<< <<"O", "P", "E", "N", "I", "N", "V", "O", "I", "C", "E">>,
                          <<"v", "1">>,
                          invoiceNumber,
                          toFixed2(total),
                          slice(hash, 8),
                          toStringRadix(t3 \div 1000, 10) >>, "|"),
      status |-> "completed",
      created_at |-> t1,
      items |-> asm.invoiceItems]

Call_invoices_create ==
  \E items \in RequestItems, paymentMethod \in PaymentMethods :
    Invoke("invoices_create", [items |-> items, paymentMethod |-> paymentMethod])

invoices_create ==
  \E k \in 1..Len(pending) :
    /\ MayResume(k, "invoices_create")
    /\ LET counter == NextCounter(invoiceCounter)
           asm == Assemble(sampleProducts, pending[k].args.items, 1, counter,
                           NewAssembly)
       IN /\ invoiceCounter' = counter
          /\ IF ~asm.ok
             THEN /\ Respond(k, FALSE, asm.error, <<>>)
                  /\ UNCHANGED <<sampleInvoices, now>>
             ELSE \E t1, t2, t3 \in now..(ClockStart + MaxTicks) :
                    /\ t1 <= t2 /\ t2 <= t3
                    /\ LET invoice == NewInvoice(counter, asm,
                                        pending[k].args.paymentMethod,
                                        mockSettings, t1, t2, t3)
                       IN /\ sampleInvoices' = Append(sampleInvoices, invoice)
                          /\ Respond(k, TRUE, <<>>, invoice)
                    /\ now' = t3
    /\ UNCHANGED <<sampleProducts, mockSettings, tampered, ui>>

\* ---------------------------------------------- invoices_process_return
\* the lookup falling back on the last record when nothing matches
FindInvoice_last(invoices, invoiceNumber) ==
  IF \E i \in 1..Len(invoices) : invoices[i].invoice_number = invoiceNumber
  THEN CHOOSE i \in 1..Len(invoices) :
         /\ invoices[i].invoice_number = invoiceNumber
         /\ \A j \in 1..(i - 1) : invoices[j].invoice_number # invoiceNumber
  ELSE Len(invoices)

\* sampleInvoices.find((i) => i.invoice_number === invoiceNumber): index of
\* the first match, or 0
FindInvoice(invoices, invoiceNumber) ==
  IF \E i \in 1..Len(invoices) : invoices[i].invoice_number = invoiceNumber
  THEN CHOOSE i \in 1..Len(invoices) :
         /\ invoices[i].invoice_number = invoiceNumber
         /\ \A j \in 1..(i - 1) : invoices[j].invoice_number # invoiceNumber
  ELSE 0

\* the loop writing the status of every line: the lines not requested are
\* set to none
MarkReturned_reset(items, itemIds) ==
  [i \in 1..Len(items) |->
     [items[i] EXCEPT !.return_status =
        IF items[i].id \in itemIds THEN "returned" ELSE "none"]]

\* the lines after the loop: every line whose id is requested is returned
MarkReturned(items, itemIds) ==
  [i \in 1..Len(items) |->
     IF items[i].id \in itemIds
     THEN [items[i] EXCEPT !.return_status = "returned"]
     ELSE items[i]]

RECURSIVE RefundAmount_unit(_, _)
\* the refund summing unit_price instead of line_total
RefundAmount_unit(items, itemIds) ==
  IF items = <<>> THEN 0
  ELSE (IF Head(items).id \in itemIds THEN Head(items).unit_price ELSE 0)
       + RefundAmount_unit(Tail(items), itemIds)

RECURSIVE RefundAmount(_, _)
\* refundAmount after the loop: the line_total of every requested line
RefundAmount(items, itemIds) ==
  IF items = <<>> THEN 0
  ELSE (IF Head(items).id \in itemIds THEN Head(items).line_total ELSE 0)
       + RefundAmount(Tail(items), itemIds)

\* invoice.items.every((i) => i.return_status === 'returned')
AllReturned(items) ==
  \A i \in 1..Len(items) : items[i].return_status = "returned"

\* allReturned ? 'returned' : 'partial_return'
NewStatus(items) == IF AllReturned(items) THEN "returned" ELSE "partial_return"

\* the return sealing the record again
ApplyReturn_rehash(invoice, itemIds) ==
  LET items == MarkReturned(invoice.items, itemIds)
  IN [invoice EXCEPT !.items = items, !.status = NewStatus(items),
                     !.previous_hash = invoice.current_hash,
                     !.current_hash = MockHash(Len(items))]

\* the status taken from the request alone: returned when the request names
\* every line
ApplyReturn_requested(invoice, itemIds) ==
  LET items == MarkReturned(invoice.items, itemIds)
  IN [invoice EXCEPT !.items = items,
                     !.status = IF \A i \in 1..Len(items) : items[i].id \in itemIds
                                THEN "returned" ELSE "partial_return"]

\* the return taking the refund off the record's total
ApplyReturn_deduct(invoice, itemIds) ==
  LET items == MarkReturned(invoice.items, itemIds)
  IN [invoice EXCEPT !.items = items, !.status = NewStatus(items),
                     !.total = invoice.total - RefundAmount(invoice.items, itemIds)]

\* the record after the loop and the status assignment
ApplyReturn(invoice, itemIds) ==
  LET items == MarkReturned(invoice.items, itemIds)
  IN [invoice EXCEPT !.items = items, !.status = NewStatus(items)]

Call_invoices_process_return ==
  \E invoiceNumber \in RequestNumbers, itemIds \in RequestItemIds :
    Invoke("invoices_process_return",
           [invoiceNumber |-> invoiceNumber, itemIds |-> itemIds])

invoices_process_return ==
  \E k \in 1..Len(pending) :
    /\ MayResume(k, "invoices_process_return")
    /\ LET invoiceNumber == pending[k].args.invoiceNumber
           itemIds == pending[k].args.itemIds
           n == FindInvoice(sampleInvoices, invoiceNumber)
       IN IF n = 0
          THEN /\ Respond(k, FALSE, <<"Invoice not found">>, <<>>)
               /\ UNCHANGED sampleInvoices
          ELSE LET invoice == ApplyReturn(sampleInvoices[n], itemIds)
               IN /\ sampleInvoices' = [sampleInvoices EXCEPT ![n] = invoice]
                  /\ Respond(k, TRUE, <<>>,
                       [invoice_number |-> invoiceNumber,
                        refund_amount |->
                          RefundAmount(sampleInvoices[n].items, itemIds),
                        new_status |-> invoice.status])
    /\ UNCHANGED <<sampleProducts, mockSettings, invoiceCounter, now, tampered, ui>>

\* ---------------------------------------------------- hash_chain_verify
\* the count taken one short
ChainVerification_short(invoices) ==
  [valid |-> TRUE, checked_count |-> Len(invoices) - 1]

\* the ChainVerification the handler answers with
ChainVerification(invoices) ==
  [valid |-> TRUE, checked_count |-> Len(invoices)]

Call_hash_chain_verify == Invoke("hash_chain_verify", <<>>)

hash_chain_verify ==
  \E k \in 1..Len(pending) :
    /\ MayResume(k, "hash_chain_verify")
    /\ Respond(k, TRUE, <<>>, ChainVerification(sampleInvoices))
    /\ UNCHANGED <<sampleProducts, sampleInvoices, mockSettings, invoiceCounter,
                   now, tampered, ui>>

\* ---------------------------------------------------------- qr_validate
MockQrImage ==
  "iVBORw0KGgoAAAANSUhEUgAAAAEAAAABCAYAAAAfFcSJAAAADUlEQVR42mNk+M9QDwADhgGAWjR9awAAAABJRU5ErkJggg=="

\* { ...invoice, qr_image: mockQrImage }
WithQrImage(invoice) ==
  [f \in DOMAIN invoice \cup {"qr_image"} |->
     IF f = "qr_image" THEN MockQrImage ELSE invoice[f]]

\* parts.length !== 6 || parts[0] !== 'OPENINVOICE'
BadFormat(parts) == Len(parts) # 6 \/ parts[1] # OpenInvoiceTag

\* the ValidationResult of the handler for a payload, against the store
ValidationResult(invoices, qrData) ==
  LET parts == Split(qrData, "|") IN
  IF BadFormat(parts)
  THEN [success |-> FALSE,
        data |-> [valid |-> FALSE,
                  error_message |-> <<"Invalid QR code format">>]]
  ELSE LET invoiceNumber == parts[3]
           n == FindInvoice(invoices, invoiceNumber)
       IN IF n = 0
          THEN [success |-> FALSE,
                data |-> [valid |-> FALSE, invoice_number |-> invoiceNumber,
                          error_message |-> <<"Invoice not found">>]]
          ELSE [success |-> TRUE,
                data |-> [valid |-> TRUE, invoice_number |-> invoiceNumber,
                          invoice_data |-> WithQrImage(invoices[n]),
                          checks |-> [format_valid |-> TRUE,
                                      invoice_exists |-> TRUE,
                                      hash_matches |-> TRUE,
                                      total_matches |-> TRUE,
                                      hash_verified |-> TRUE]]]

Call_qr_validate ==
  \E qrData \in QrPayloads : Invoke("qr_validate", [qrData |-> qrData])

qr_validate ==
  \E k \in 1..Len(pending) :
    /\ MayResume(k, "qr_validate")
    /\ LET result == ValidationResult(sampleInvoices, pending[k].args.qrData)
       IN Respond(k, result.success, <<>>, result.data)
    /\ UNCHANGED <<sampleProducts, sampleInvoices, mockSettings, invoiceCounter,
                   now, tampered, ui>>

\* ------------------------------------------- products_update, settings
\* sampleProducts.findIndex((p) => p.id === data.id), from 1, or 0
FindIndex(products, id) == FindProduct(products, id)

\* { ...a, ...b }
Spread(a, b) ==
  [f \in DOMAIN a \cup DOMAIN b |-> IF f \in DOMAIN b THEN b[f] ELSE a[f]]

Call_products_update ==
  \E data \in ProductUpdates : Invoke("products_update", [data |-> data])

products_update ==
  \E k \in 1..Len(pending) :
    /\ MayResume(k, "products_update")
    /\ LET data == pending[k].args.data
           index == FindIndex(sampleProducts, data.id)
       IN IF index > 0
          THEN LET product == Spread(sampleProducts[index], data)
               IN /\ sampleProducts' = [sampleProducts EXCEPT ![index] = product]
                  /\ Respond(k, TRUE, <<>>, product)
          ELSE /\ Respond(k, FALSE, <<"Product not found">>, <<>>)
               /\ UNCHANGED sampleProducts
    /\ UNCHANGED <<sampleInvoices, mockSettings, invoiceCounter, now, tampered, ui>>

Call_settings_update ==
  \E u \in SettingUpdates : Invoke("settings_update", u)

settings_update ==
  \E k \in 1..Len(pending) :
    /\ MayResume(k, "settings_update")
    /\ mockSettings' =
         Spread(mockSettings, [f \in {pending[k].args.key} |-> pending[k].args.value])
    /\ Respond(k, TRUE, <<>>, <<>>)
    /\ UNCHANGED <<sampleProducts, sampleInvoices, invoiceCounter, now, tampered, ui>>

Call_settings_update_many ==
  \E settings \in SettingsUpdates :
    Invoke("settings_update_many", [settings |-> settings])

settings_update_many ==
  \E k \in 1..Len(pending) :
    /\ MayResume(k, "settings_update_many")
    /\ mockSettings' = Spread(mockSettings, pending[k].args.settings)
    /\ Respond(k, TRUE, <<>>, <<>>)
    /\ UNCHANGED <<sampleProducts, sampleInvoices, invoiceCounter, now, tampered, ui>>

\* ------------------------------------------------------------- ScanPage
\* what the user types or scans into the input: the number of the seeded
\* invoice, of the next one and of none, the seeded QR payload, and a
\* payload cut after its version
ScanInputs ==
  {InvoiceNumber(0), InvoiceNumber(1), InvoiceNumber(2), SampleQrData,
   OpenInvoiceTag \o <<"|", "v", "1">>}

\* the one sale made at the till while the page is open
TillItems == {<< [product_id |-> "PROD001", quantity |-> 1] >>}

\* the response of invoices_get_by_number
GetByNumber(invoices, invoiceNumber) ==
  LET n == FindInvoice(invoices, invoiceNumber)
  IN IF n > 0
     THEN [success |-> TRUE, error |-> <<>>, data |-> WithQrImage(invoices[n])]
     ELSE [success |-> FALSE, error |-> <<"Invoice not found">>, data |-> <<>>]

\* the lines of the invoice the page holds: the spread copy shares its
\* items array with the record of the store
DisplayedItems == sampleInvoices[FindInvoice(sampleInvoices,
                                             scanPage.invoice[1].invoice_number)].items

\* the ids of the displayed lines whose checkbox is rendered
Selectable ==
  {DisplayedItems[i].id : i \in {j \in 1..Len(DisplayedItems) :
                                   DisplayedItems[j].return_status = "none"}}

\* onChange of the input
setInputValue ==
  /\ \E value \in ScanInputs :
       /\ value # scanPage.inputValue
       /\ scanPage' = [scanPage EXCEPT !.inputValue = value]
  /\ UNCHANGED <<sampleProducts, sampleInvoices, mockSettings, invoiceCounter,
                 now, pending, responses, tampered, cartStore, settingsStore>>

\* a sale at the till: invoices_create called from the invoice page
Call_checkout ==
  /\ Len(responses) + Len(pending) < MaxScanCalls
  /\ \E items \in TillItems :
       pending' = Append(pending, [op |-> "invoices_create",
                                   args |-> [items |-> items,
                                             paymentMethod |-> "cash"]])
  /\ UNCHANGED <<sampleProducts, sampleInvoices, mockSettings, invoiceCounter,
                 now, responses, tampered, ui>>

\* handleValidate up to its await
Call_handleValidate ==
  /\ scanPage.inputValue # <<>>
  /\ Len(responses) + Len(pending) < MaxScanCalls
  /\ scanPage' = [scanPage EXCEPT !.isValidating = TRUE, !.result = <<>>,
                                  !.invoice = <<>>, !.returnResult = <<>>]
  /\ pending' = Append(pending,
       IF startsWith(scanPage.inputValue, OpenInvoiceTag \o <<"|">>)
       THEN [op |-> "qr_validate", args |-> [qrData |-> scanPage.inputValue],
             handler |-> "handleValidate"]
       ELSE [op |-> "invoices_get_by_number",
             args |-> [invoiceNumber |-> scanPage.inputValue],
             handler |-> "handleValidate"])
  /\ UNCHANGED <<sampleProducts, sampleInvoices, mockSettings, invoiceCounter,
                 now, responses, tampered, cartStore, settingsStore>>

\* the page after validateQr answered
AfterValidateQr(page, response) ==
  LET shown == IF response.success
               THEN [page EXCEPT !.result = <<response.data>>,
                                 !.invoice = IF "invoice_data" \in DOMAIN response.data
                                             THEN <<response.data.invoice_data>>
                                             ELSE @]
               ELSE page
  IN [shown EXCEPT !.isValidating = FALSE]

\* the page after getByNumber answered
AfterGetByNumber(page, response) ==
  LET shown == IF response.success
               THEN [page EXCEPT
                       !.invoice = <<response.data>>,
                       !.result = << [valid |-> TRUE,
                                      invoice_number |-> response.data.invoice_number,
                                      invoice_data |-> response.data,
                                      checks |-> [invoice_exists |-> TRUE,
                                                  hash_verified |-> TRUE]] >>]
               ELSE [page EXCEPT
                       !.result = << [valid |-> FALSE,
                                      error_message |-> response.error] >>]
  IN [shown EXCEPT !.isValidating = FALSE]

\* handleValidate from its await on: the API answers and the page shows it
handleValidate ==
  \E k \in 1..Len(pending) :
    /\ "handler" \in DOMAIN pending[k]
    /\ pending[k].handler = "handleValidate"
    /\ MayResume(k, pending[k].op)
    /\ IF pending[k].op = "qr_validate"
       THEN LET response == ValidationResult(sampleInvoices, pending[k].args.qrData)
            IN /\ Respond(k, response.success, <<>>, response.data)
               /\ scanPage' = AfterValidateQr(scanPage, response)
       ELSE LET response == GetByNumber(sampleInvoices,
                                        pending[k].args.invoiceNumber)
            IN /\ Respond(k, response.success, response.error, response.data)
               /\ scanPage' = AfterGetByNumber(scanPage, response)
    /\ UNCHANGED <<sampleProducts, sampleInvoices, mockSettings, invoiceCounter,
                   now, tampered, cartStore, settingsStore>>

\* the checkbox of a line
handleToggleItem ==
  /\ scanPage.invoice # <<>>
  /\ \E itemId \in Selectable :
       scanPage' = [scanPage EXCEPT !.selectedItems =
                      IF itemId \in @ THEN @ \ {itemId} ELSE @ \cup {itemId}]
  /\ UNCHANGED <<sampleProducts, sampleInvoices, mockSettings, invoiceCounter,
                 now, pending, responses, tampered, cartStore, settingsStore>>

\* the checkbox of the table head
selectAll ==
  /\ scanPage.invoice # <<>>
  /\ scanPage.invoice[1].status # "returned"
  /\ scanPage' = [scanPage EXCEPT !.selectedItems =
                    IF Cardinality(@) = Cardinality(Selectable)
                    THEN {} ELSE Selectable]
  /\ UNCHANGED <<sampleProducts, sampleInvoices, mockSettings, invoiceCounter,
                 now, pending, responses, tampered, cartStore, settingsStore>>

\* handleProcessReturn up to its first await
Call_handleProcessReturn ==
  /\ scanPage.invoice # <<>>
  /\ scanPage.invoice[1].status # "returned"
  /\ scanPage.selectedItems # {}
  /\ ~scanPage.isProcessingReturn
  /\ Len(responses) + Len(pending) < MaxScanCalls
  /\ scanPage' = [scanPage EXCEPT !.isProcessingReturn = TRUE]
  /\ pending' = Append(pending,
       [op |-> "invoices_process_return",
        args |-> [invoiceNumber |-> scanPage.invoice[1].invoice_number,
                  itemIds |-> scanPage.selectedItems],
        handler |-> "handleProcessReturn"])
  /\ UNCHANGED <<sampleProducts, sampleInvoices, mockSettings, invoiceCounter,
                 now, responses, tampered, cartStore, settingsStore>>

\* handleProcessReturn from its first await to its second: the return is
\* processed and, when it succeeded, the invoice is asked for again
handleProcessReturn ==
  \E k \in 1..Len(pending) :
    /\ "handler" \in DOMAIN pending[k]
    /\ pending[k].handler = "handleProcessReturn"
    /\ MayResume(k, "invoices_process_return")
    /\ LET invoiceNumber == pending[k].args.invoiceNumber
           itemIds == pending[k].args.itemIds
           n == FindInvoice(sampleInvoices, invoiceNumber)
       IN IF n = 0
          THEN /\ Respond(k, FALSE, <<"Invoice not found">>, <<>>)
               /\ scanPage' = [scanPage EXCEPT
                     !.returnResult = << [success |-> FALSE,
                                          message |-> <<"Invoice not found">>] >>,
                     !.isProcessingReturn = FALSE]
               /\ UNCHANGED sampleInvoices
          ELSE LET returned == ApplyReturn(sampleInvoices[n], itemIds)
                   refund == RefundAmount(sampleInvoices[n].items, itemIds)
               IN /\ sampleInvoices' = [sampleInvoices EXCEPT ![n] = returned]
                  /\ responses' = Append(responses,
                       [op |-> pending[k].op, args |-> pending[k].args,
                        inflight |-> Others(k), success |-> TRUE,
                        error |-> <<>>,
                        data |-> [invoice_number |-> invoiceNumber,
                                  refund_amount |-> refund,
                                  new_status |-> returned.status]])
                  /\ pending' = Append(Others(k),
                       [op |-> "invoices_get_by_number",
                        args |-> [invoiceNumber |-> invoiceNumber],
                        handler |-> "refreshed"])
                  /\ scanPage' = [scanPage EXCEPT
                       !.returnResult = << [success |-> TRUE,
                                            message |-> toFixed2(refund)] >>]
    /\ UNCHANGED <<sampleProducts, mockSettings, invoiceCounter, now, tampered,
                   cartStore, settingsStore>>

\* handleProcessReturn from its second await on
refreshed ==
  \E k \in 1..Len(pending) :
    /\ "handler" \in DOMAIN pending[k]
    /\ pending[k].handler = "refreshed"
    /\ MayResume(k, "invoices_get_by_number")
    /\ LET response == GetByNumber(sampleInvoices, pending[k].args.invoiceNumber)
       IN /\ Respond(k, response.success, response.error, response.data)
          /\ scanPage' = [scanPage EXCEPT
               !.invoice = IF response.success THEN <<response.data>> ELSE @,
               !.selectedItems = {},
               !.isProcessingReturn = FALSE]
    /\ UNCHANGED <<sampleProducts, sampleInvoices, mockSettings, invoiceCounter,
                   now, tampered, cartStore, settingsStore>>

\* the reset button, rendered when a result or an invoice is shown
handleReset ==
  /\ scanPage.result # <<>> \/ scanPage.invoice # <<>>
  /\ scanPage' = [scanPage EXCEPT !.inputValue = <<>>, !.result = <<>>,
                                  !.invoice = <<>>, !.selectedItems = {},
                                  !.returnResult = <<>>]
  /\ UNCHANGED <<sampleProducts, sampleInvoices, mockSettings, invoiceCounter,
                 now, pending, responses, tampered, cartStore, settingsStore>>

\* ------------------------------------------------------------ cartStore
\* the quantities addItem and updateQuantity are given
AddQuantities == {1, 2}
UpdateQuantities == {-1, 0, 1, 2}
CartProductIds == {"PROD001", "PROD004"}

\* state.items.findIndex((item) => item.product.id === product.id), from
\* 1, or 0
FindItem(items, productId) ==
  IF \E i \in 1..Len(items) : items[i].product.id = productId
  THEN CHOOSE i \in 1..Len(items) :
         /\ items[i].product.id = productId
         /\ \A j \in 1..(i - 1) : items[j].product.id # productId
  ELSE 0

\* the items after addItem always appending an entry
AddItem_push(items, product, quantity) ==
  Append(items, [product |-> product, quantity |-> quantity])

\* the items after addItem(product, quantity)
AddItem(items, product, quantity) ==
  LET existingIndex == FindItem(items, product.id)
  IN IF existingIndex > 0
     THEN [items EXCEPT ![existingIndex].quantity = @ + quantity]
     ELSE Append(items, [product |-> product, quantity |-> quantity])

\* the items after removeItem(productId)
RemoveItem(items, productId) ==
  SelectSeq(items, LAMBDA item : item.product.id # productId)

\* the items after updateQuantity(productId, quantity)
UpdateQuantity(items, productId, quantity) ==
  IF quantity <= 0 THEN RemoveItem(items, productId)
  ELSE [i \in 1..Len(items) |->
          IF items[i].product.id = productId
          THEN [items[i] EXCEPT !.quantity = quantity] ELSE items[i]]

RECURSIVE getSubtotal(_)
getSubtotal(items) ==
  IF items = <<>> THEN 0
  ELSE getSubtotal(SubSeq(items, 1, Len(items) - 1))
       + items[Len(items)].product.price * items[Len(items)].quantity

RECURSIVE getVatAmount(_)
getVatAmount(items) ==
  IF items = <<>> THEN 0
  ELSE getVatAmount(SubSeq(items, 1, Len(items) - 1))
       + (items[Len(items)].product.price * items[Len(items)].quantity
            * items[Len(items)].product.vat_rate) \div 100

getTotal(items) == getSubtotal(items) + getVatAmount(items)

RECURSIVE getItemCount(_)
getItemCount(items) ==
  IF items = <<>> THEN 0
  ELSE getItemCount(SubSeq(items, 1, Len(items) - 1)) + items[Len(items)].quantity

\* addItem with a product of the list the page loaded
addItem ==
  /\ \E p \in 1..Len(sampleProducts), quantity \in AddQuantities :
       /\ getItemCount(cartStore.items) + quantity <= MaxCartQuantity
       /\ cartStore' = [cartStore EXCEPT
            !.items = AddItem(cartStore.items, sampleProducts[p], quantity)]
  /\ UNCHANGED <<sampleProducts, sampleInvoices, mockSettings, invoiceCounter,
                 now, pending, responses, tampered, scanPage, settingsStore>>

removeItem ==
  /\ \E productId \in CartProductIds :
       cartStore' = [cartStore EXCEPT
         !.items = RemoveItem(cartStore.items, productId)]
  /\ UNCHANGED <<sampleProducts, sampleInvoices, mockSettings, invoiceCounter,
                 now, pending, responses, tampered, scanPage, settingsStore>>

updateQuantity ==
  /\ \E productId \in CartProductIds, quantity \in UpdateQuantities :
       cartStore' = [cartStore EXCEPT
         !.items = UpdateQuantity(cartStore.items, productId, quantity)]
  /\ UNCHANGED <<sampleProducts, sampleInvoices, mockSettings, invoiceCounter,
                 now, pending, responses, tampered, scanPage, settingsStore>>

clearCart ==
  /\ cartStore' = [cartStore EXCEPT !.items = <<>>]
  /\ UNCHANGED <<sampleProducts, sampleInvoices, mockSettings, invoiceCounter,
                 now, pending, responses, tampered, scanPage, settingsStore>>

\* handleCheckout up to its await (its buttons are disabled while
\* isCheckingOut); the closure keeps the cartItems it read
Call_handleCheckout ==
  /\ cartStore.items # <<>>
  /\ \A k \in 1..Len(pending) :
       ~("handler" \in DOMAIN pending[k] /\ pending[k].handler = "handleCheckout")
  /\ Len(responses) + Len(pending) < MaxCalls
  /\ \E paymentMethod \in PaymentMethods :
       pending' = Append(pending,
         [op |-> "invoices_create",
          args |-> [items |-> [i \in 1..Len(cartStore.items) |->
                                 [product_id |-> cartStore.items[i].product.id,
                                  quantity |-> cartStore.items[i].quantity]],
                    paymentMethod |-> paymentMethod],
          handler |-> "handleCheckout",
          cartItems |-> cartStore.items])
  /\ UNCHANGED <<sampleProducts, sampleInvoices, mockSettings, invoiceCounter,
                 now, responses, tampered, ui>>

\* handleCheckout from its await on: the invoice is created and, when that
\* succeeded, the cart is cleared
handleCheckout ==
  \E k \in 1..Len(pending) :
    /\ "handler" \in DOMAIN pending[k]
    /\ pending[k].handler = "handleCheckout"
    /\ MayResume(k, "invoices_create")
    /\ LET counter == NextCounter(invoiceCounter)
           asm == Assemble(sampleProducts, pending[k].args.items, 1, counter,
                           NewAssembly)
           call == [op |-> pending[k].op, args |-> pending[k].args,
                    inflight |-> Others(k), cartItems |-> pending[k].cartItems]
       IN /\ invoiceCounter' = counter
          /\ pending' = Others(k)
          /\ IF ~asm.ok
             THEN /\ responses' = Append(responses,
                        call @@ [success |-> FALSE, error |-> asm.error,
                                 data |-> <<>>])
                  /\ UNCHANGED <<sampleInvoices, now, cartStore>>
             ELSE \E t1, t2, t3 \in now..(ClockStart + MaxTicks) :
                    /\ t1 <= t2 /\ t2 <= t3
                    /\ LET invoice == NewInvoice(counter, asm,
                                        pending[k].args.paymentMethod,
                                        mockSettings, t1, t2, t3)
                       IN /\ sampleInvoices' = Append(sampleInvoices, invoice)
                          /\ responses' = Append(responses,
                                call @@ [success |-> TRUE, error |-> <<>>,
                                         data |-> invoice])
                    /\ now' = t3
                    /\ cartStore' = [cartStore EXCEPT !.items = <<>>]
    /\ UNCHANGED <<sampleProducts, mockSettings, tampered, scanPage,
                   settingsStore>>

\* -------------------------------------------------------- settings store
\* the store's calls that have not completed
StoreCalls ==
  { k \in 1..Len(pending) :
      /\ "handler" \in DOMAIN pending[k]
      /\ pending[k].handler \in {"updateSetting", "updateSettings"} }

\* updateSetting(key, value) up to its await: the old value is kept and the
\* new one shown at once
Call_updateSetting ==
  /\ Len(responses) + Len(pending) < MaxSettingsCalls
  /\ \E u \in SettingUpdates :
       /\ settingsStore' = [settingsStore EXCEPT !.settings[u.key] = u.value]
       /\ pending' = Append(pending,
            [op |-> "settings_update", args |-> u, handler |-> "updateSetting",
             oldValue |-> settingsStore.settings[u.key]])
  /\ UNCHANGED <<sampleProducts, sampleInvoices, mockSettings, invoiceCounter,
                 now, responses, tampered, scanPage, cartStore>>

\* updateSetting from its await on: the backend took the value, or the call
\* failed (success false, or the bridge threw) and the old value is put back
updateSetting ==
  \E k \in 1..Len(pending), success \in BOOLEAN :
    /\ k \in StoreCalls
    /\ pending[k].handler = "updateSetting"
    /\ MayResume(k, "settings_update")
    /\ IF success
       THEN /\ mockSettings' = Spread(mockSettings,
                   [f \in {pending[k].args.key} |-> pending[k].args.value])
            /\ Respond(k, TRUE, <<>>, <<>>)
            /\ UNCHANGED settingsStore
       ELSE /\ Respond(k, FALSE, <<"Failed to update setting">>, <<>>)
            /\ settingsStore' =
                 [settings |-> [settingsStore.settings EXCEPT
                                  ![pending[k].args.key] = pending[k].oldValue],
                  error |-> <<"Failed to update setting">>]
            /\ UNCHANGED mockSettings
    /\ UNCHANGED <<sampleProducts, sampleInvoices, invoiceCounter, now, tampered,
                   scanPage, cartStore>>

\* updateSettings(updates) up to its await
Call_updateSettings ==
  /\ Len(responses) + Len(pending) < MaxSettingsCalls
  /\ \E updates \in SettingsUpdates :
       /\ settingsStore' = [settingsStore EXCEPT
            !.settings = Spread(settingsStore.settings, updates)]
       /\ pending' = Append(pending,
            [op |-> "settings_update_many", args |-> [settings |-> updates],
             handler |-> "updateSettings",
             oldSettings |-> settingsStore.settings])
  /\ UNCHANGED <<sampleProducts, sampleInvoices, mockSettings, invoiceCounter,
                 now, responses, tampered, scanPage, cartStore>>

\* updateSettings from its await on: on failure the settings read before
\* the call are put back as a whole
updateSettings ==
  \E k \in 1..Len(pending), success \in BOOLEAN :
    /\ k \in StoreCalls
    /\ pending[k].handler = "updateSettings"
    /\ MayResume(k, "settings_update_many")
    /\ IF success
       THEN /\ mockSettings' = Spread(mockSettings, pending[k].args.settings)
            /\ Respond(k, TRUE, <<>>, <<>>)
            /\ UNCHANGED settingsStore
       ELSE /\ Respond(k, FALSE, <<"Failed to update settings">>, <<>>)
            /\ settingsStore' =
                 [settings |-> pending[k].oldSettings,
                  error |-> <<"Failed to update settings">>]
            /\ UNCHANGED mockSettings
    /\ UNCHANGED <<sampleProducts, sampleInvoices, invoiceCounter, now, tampered,
                   scanPage, cartStore>>

\* ------------------------------------------------------------ tampering
TamperFields == {"total", "items", "created_at", "previous_hash"}

\* record r with one of its hashed fields altered
Altered(r, field) ==
  CASE field = "total" -> [r EXCEPT !.total = r.total + 1000]
    [] field = "created_at" -> [r EXCEPT !.created_at = r.created_at + 1000]
    [] field = "previous_hash" -> [r EXCEPT !.previous_hash = <<"f", "0", "0", "d">>]
    [] field = "items" ->
         IF r.items = <<>> THEN [r EXCEPT !.total = r.total + 1000]
         ELSE [r EXCEPT !.items[1].quantity = r.items[1].quantity + 1]

\* a stored record altered behind the API (sampleInvoices is a mutable array)
Tamper ==
  \E k \in 1..Len(sampleInvoices), field \in TamperFields :
    /\ Cardinality(tampered) < MaxTampered
    /\ k \notin tampered
    /\ sampleInvoices' = [sampleInvoices EXCEPT ![k] = Altered(@, field)]
    /\ tampered' = tampered \cup {k}
    /\ UNCHANGED <<sampleProducts, mockSettings, invoiceCounter, now, pending,
                   responses, ui>>

\* ------------------------------------------------------ specifications
Next ==
  \/ Call_invoices_create
  \/ invoices_create
  \/ Call_invoices_process_return
  \/ invoices_process_return
  \/ Call_hash_chain_verify
  \/ hash_chain_verify

Spec == Init /\ [][Next]_vars

NextTamper ==
  \/ Call_invoices_create
  \/ invoices_create
  \/ Call_hash_chain_verify
  \/ hash_chain_verify
  \/ Tamper

SpecTamper == Init /\ [][NextTamper]_vars

NextLedger ==
  \/ Call_invoices_create
  \/ invoices_create
  \/ Call_invoices_process_return
  \/ invoices_process_return
  \/ Call_hash_chain_verify
  \/ hash_chain_verify
  \/ Call_products_update
  \/ products_update
  \/ Call_settings_update
  \/ settings_update
  \/ Call_settings_update_many
  \/ settings_update_many

SpecLedger == Init /\ [][NextLedger]_vars

NextScan ==
  \/ Call_checkout
  \/ invoices_create
  \/ setInputValue
  \/ Call_handleValidate
  \/ handleValidate
  \/ handleToggleItem
  \/ selectAll
  \/ Call_handleProcessReturn
  \/ handleProcessReturn
  \/ refreshed
  \/ handleReset

SpecScan == Init /\ [][NextScan]_vars

NextSettings ==
  \/ Call_updateSetting
  \/ updateSetting
  \/ Call_updateSettings
  \/ updateSettings

SpecSettings == Init /\ [][NextSettings]_vars

NextCartStore ==
  \/ addItem
  \/ removeItem
  \/ updateQuantity
  \/ clearCart
  \/ Call_products_update
  \/ products_update

SpecCartStore == Init /\ [][NextCartStore]_vars

NextCart ==
  \/ addItem
  \/ removeItem
  \/ updateQuantity
  \/ clearCart
  \/ Call_handleCheckout
  \/ handleCheckout
  \/ Call_products_update
  \/ products_update

SpecCart == Init /\ [][NextCart]_vars

NextVerify ==
  \/ Call_invoices_create
  \/ invoices_create
  \/ Call_qr_validate
  \/ qr_validate

SpecVerify == Init /\ [][NextVerify]_vars

\* ------------------------------------------------- reading the responses
\* this step completes a call of op
Completes(op) ==
  /\ Len(responses') = Len(responses) + 1
  /\ responses'[Len(responses')].op = op

\* the response of the call this step completes
Completed == responses'[Len(responses')]

\* response j is of a call that was suspended when the call of response i
\* completed: the two calls ran concurrently
Overlapped(i, j) ==
  /\ i < j
  /\ \E e \in 1..Len(responses[i].inflight) :
       responses[i].inflight[e] = [op |-> responses[j].op, args |-> responses[j].args]
  /\ \A m \in (i + 1)..(j - 1) :
       ~(responses[m].op = responses[j].op /\ responses[m].args = responses[j].args)

RECURSIVE SumLineTotals(_)
SumLineTotals(items) ==
  IF items = <<>> THEN 0 ELSE Head(items).line_total + SumLineTotals(Tail(items))

\* the stored record with this invoice number
Stored(invoiceNumber) == sampleInvoices[FindInvoice(sampleInvoices, invoiceNumber)]

\* some line of the request names a product the table does not hold
HasUnknownProduct(items) ==
  \E i \in 1..Len(items) : FindProduct(sampleProducts, items[i].product_id) = 0

\* the request has lines, all of products the table holds and of positive
\* quantity
ValidRequest(items) ==
  /\ items # <<>>
  /\ ~HasUnknownProduct(items)
  /\ \A i \in 1..Len(items) : items[i].quantity > 0

\* ------------------------------------------------------------------ C1
\* C1: a line can be returned at most once. When invoices_process_return
\* completes on an invoice of which a requested line already has
\* return_status = returned, the call fails, the store is left as it was
\* and the response carries no refund_amount.
C1_DoubleReturnRejected ==
  [][ \A k \in 1..Len(sampleInvoices) :
        ( /\ Completes("invoices_process_return")
          /\ k = FindInvoice(sampleInvoices, Completed.args.invoiceNumber)
          /\ \E i \in 1..Len(sampleInvoices[k].items) :
               /\ sampleInvoices[k].items[i].id \in Completed.args.itemIds
               /\ sampleInvoices[k].items[i].return_status = "returned" )
        => ( /\ ~Completed.success
             /\ sampleInvoices' = sampleInvoices
             /\ "refund_amount" \notin DOMAIN Completed.data ) ]_vars

\* ------------------------------------------------------------------ C2
\* C2: returns on one invoice are serialized. Two successful
\* invoices_process_return calls on the same invoice number that were in
\* flight at the same time refund each line at most once: their
\* refund_amounts sum to at most the sum of the invoice's line_totals.
C2_ConcurrentReturnsBounded ==
  \A i, j \in 1..Len(responses) :
    ( /\ Overlapped(i, j)
      /\ responses[i].op = "invoices_process_return"
      /\ responses[j].op = "invoices_process_return"
      /\ responses[i].success /\ responses[j].success
      /\ responses[i].args.invoiceNumber = responses[j].args.invoiceNumber )
    => responses[i].data.refund_amount + responses[j].data.refund_amount
         <= SumLineTotals(Stored(responses[i].args.invoiceNumber).items)

\* ------------------------------------------------------------------ C3
SomeReturned(items) ==
  \E i \in 1..Len(items) : items[i].return_status = "returned"

\* C3: invariant I3, for every stored invoice that has lines: status is
\* returned iff all lines are returned, partial_return iff at least one but
\* not all lines are returned, and completed otherwise.
C3_StatusMatchesLines ==
  \A k \in 1..Len(sampleInvoices) :
    LET inv == sampleInvoices[k] IN
    inv.items # <<>> =>
      /\ (inv.status = "returned") <=> AllReturned(inv.items)
      /\ (inv.status = "partial_return")
           <=> (SomeReturned(inv.items) /\ ~AllReturned(inv.items))
      /\ (inv.status = "completed") <=> ~SomeReturned(inv.items)

\* ------------------------------------------------------------------ C4
Genesis == <<"G", "E", "N", "E", "S", "I", "S">>

\* C4: invariant I1, once invoices_create has appended the record of a
\* valid request: the first record in store order has previous_hash =
\* "GENESIS" and every later record's previous_hash is the current_hash of
\* the record before it.
C4_ChainLinked ==
  (\E i \in 1..Len(responses) :
      /\ responses[i].op = "invoices_create" /\ responses[i].success
      /\ ValidRequest(responses[i].args.items))
  => /\ sampleInvoices[1].previous_hash = Genesis
     /\ \A k \in 2..Len(sampleInvoices) :
          sampleInvoices[k].previous_hash = sampleInvoices[k - 1].current_hash

\* ------------------------------------------------------------------ C5
\* C5: tampering is detected. When hash_chain_verify completes on a store
\* in which exactly one record was altered, it answers valid = false and
\* names that record as the failed one.
C5_TamperingDetected ==
  [][ \A k \in 1..Len(sampleInvoices) :
        (Completes("hash_chain_verify") /\ tampered = {k})
        => ( /\ Completed.data.valid = FALSE
             /\ "failed_invoice_id" \in DOMAIN Completed.data
             /\ Completed.data.failed_invoice_id = sampleInvoices[k].id ) ]_vars

\* ------------------------------------------------------------------ C6
\* C6: on a chain built by invoices_create alone, hash_chain_verify answers
\* valid = true with checked_count equal to the number of records the store
\* holds when the call completes.
C6_UntamperedChainValid ==
  [][ Completes("hash_chain_verify")
      => ( /\ Completed.success
           /\ Completed.data.valid = TRUE
           /\ Completed.data.checked_count = Len(sampleInvoices) ) ]_vars

\* a verification completed after invoices_create had appended a record
C6_Witness ==
  \E i, j \in 1..Len(responses) :
    /\ i < j
    /\ responses[i].op = "invoices_create" /\ responses[i].success
    /\ responses[j].op = "hash_chain_verify"
    /\ responses[j].data.checked_count = Len(InitInvoices) + 1

\* ------------------------------------------------------------------ C7
\* C7: creation reads the latest record and appends as one step. Of two
\* successful invoices_create calls of valid requests that were in flight
\* at the same time,
\* the record appended second links to the record appended first, so the
\* two records do not carry the same previous_hash.
C7_NoFork ==
  \A i, j \in 1..Len(responses) :
    ( /\ Overlapped(i, j)
      /\ responses[i].op = "invoices_create" /\ responses[i].success
      /\ responses[j].op = "invoices_create" /\ responses[j].success
      /\ ValidRequest(responses[i].args.items)
      /\ ValidRequest(responses[j].args.items) )
    => LET first == Stored(responses[i].data.invoice_number)
           second == Stored(responses[j].data.invoice_number)
       IN /\ second.previous_hash = first.current_hash
          /\ second.previous_hash # first.previous_hash

\* ------------------------------------------------------------------ C8
\* C8: invoice numbers are unique and monotonically assigned. No two stored
\* records share an invoice_number or an id, and the sequence part of
\* invoice_number strictly increases in store order.
C8_NumbersUniqueIncreasing ==
  \A i, j \in 1..Len(sampleInvoices) :
    i < j =>
      /\ sampleInvoices[i].invoice_number # sampleInvoices[j].invoice_number
      /\ sampleInvoices[i].id # sampleInvoices[j].id
      /\ SequencePart(sampleInvoices[i].invoice_number)
           < SequencePart(sampleInvoices[j].invoice_number)

\* a failed creation completed while a second one was in flight, and the
\* second one then appended its record
C8_Witness ==
  /\ Len(responses) >= 2
  /\ responses[1].op = "invoices_create" /\ ~responses[1].success
  /\ responses[2].op = "invoices_create" /\ responses[2].success
  /\ Overlapped(1, 2)
  /\ Len(sampleInvoices) = Len(InitInvoices) + 1

\* ------------------------------------------------------------------ C9
\* C9: when invoices_create completes on a request of which some line names
\* a product id that does not resolve, it answers with an error and the
\* store holds exactly the records it held before.
C9_UnknownProductAppendsNothing ==
  [][ (Completes("invoices_create") /\ HasUnknownProduct(Completed.args.items))
      => (~Completed.success /\ sampleInvoices' = sampleInvoices) ]_vars

\* a creation failed on an unknown product that came after a valid line
C9_Witness ==
  \E i \in 1..Len(responses) :
    LET r == responses[i] IN
    /\ r.op = "invoices_create" /\ ~r.success
    /\ Len(r.args.items) = 2
    /\ FindProduct(sampleProducts, r.args.items[1].product_id) # 0
    /\ r.args.items[1].quantity > 0
    /\ FindProduct(sampleProducts, r.args.items[2].product_id) = 0

\* ----------------------------------------------------------------- C10
\* C10: invoices_create validates its input. A request with no lines, or
\* with a line whose quantity is not positive, is answered with an error,
\* and no stored invoice has zero lines or a line with quantity <= 0.
C10_InputValidated ==
  /\ \A i \in 1..Len(responses) :
       LET r == responses[i] IN
       ( /\ r.op = "invoices_create"
         /\ \/ r.args.items = <<>>
            \/ \E n \in 1..Len(r.args.items) : r.args.items[n].quantity <= 0 )
       => ~r.success
  /\ \A k \in 1..Len(sampleInvoices) :
       /\ sampleInvoices[k].items # <<>>
       /\ \A n \in 1..Len(sampleInvoices[k].items) :
            sampleInvoices[k].items[n].quantity > 0

\* ------------------------------------------------ single-record verdicts
\* the fields of the payload a response of qr_validate is about
Scanned(r) == Split(r.args.qrData, "|")

\* response r is a verdict of qr_validate with valid = true
ReportedValid(r) == r.op = "qr_validate" /\ r.data.valid

\* the total field of the payload of r is the stored total of the invoice
\* it names, to 2 decimals
TotalFieldMatches(r) ==
  Scanned(r)[4] = toFixed2(Stored(Scanned(r)[3]).total)

\* the hash field of the payload of r is the first 8 characters of the
\* current_hash of the invoice it names
HashFieldMatches(r) ==
  Scanned(r)[5] = slice(Stored(Scanned(r)[3]).current_hash, 8)

\* ------------------------------------------------------------------ C11
\* C11: single-record verification reports valid = true only if every
\* check passed: a payload whose total field differs from the stored
\* invoice's total (to 2 decimals) is never reported valid.
\* (Checked on payloads of version v1 whose hash field is the record's.)
C11_ValidOnlyIfTotalMatches ==
  \A i \in 1..Len(responses) :
    ( /\ ReportedValid(responses[i])
      /\ Scanned(responses[i])[2] = <<"v", "1">>
      /\ HashFieldMatches(responses[i]) )
    => TotalFieldMatches(responses[i])

\* ------------------------------------------------------------------ C12
\* C12: qr_validate never reports valid = true for a payload whose hash
\* field differs from the first 8 characters of the stored record's
\* current_hash.
\* (Checked on payloads of version v1 whose total field is the record's.)
C12_ValidOnlyIfHashMatches ==
  \A i \in 1..Len(responses) :
    ( /\ ReportedValid(responses[i])
      /\ Scanned(responses[i])[2] = <<"v", "1">>
      /\ TotalFieldMatches(responses[i]) )
    => HashFieldMatches(responses[i])

\* ------------------------------------------------------------------ C13
\* C13: a 6-field payload with tag OPENINVOICE whose version is not v1 is
\* rejected and never reported valid, even when its invoice number exists
\* (and its total and hash fields are the record's).
C13_UnsupportedVersionRejected ==
  \A i \in 1..Len(responses) :
    ( /\ responses[i].op = "qr_validate"
      /\ ~BadFormat(Scanned(responses[i]))
      /\ Scanned(responses[i])[2] # <<"v", "1">>
      /\ FindInvoice(sampleInvoices, Scanned(responses[i])[3]) # 0
      /\ TotalFieldMatches(responses[i])
      /\ HashFieldMatches(responses[i]) )
    => ~responses[i].data.valid

\* ------------------------------------------------------------------ C14
\* C14: every failed single-record verdict reports which check failed. A
\* payload without exactly 6 fields or with a tag other than OPENINVOICE
\* yields valid = false with checks.format_valid = false; a well-formed
\* payload naming an unknown invoice yields valid = false with that
\* invoice_number and checks.invoice_exists = false.
C14_FailedVerdictNamesCheck ==
  \A i \in 1..Len(responses) :
    LET r == responses[i]
        parts == Scanned(r)
    IN /\ ( r.op = "qr_validate" /\ BadFormat(parts) )
            => ( /\ ~r.data.valid
                 /\ "checks" \in DOMAIN r.data
                 /\ "format_valid" \in DOMAIN r.data.checks
                 /\ r.data.checks.format_valid = FALSE )
       /\ ( /\ r.op = "qr_validate"
             /\ ~BadFormat(parts)
             /\ FindInvoice(sampleInvoices, parts[3]) = 0 )
            => ( /\ ~r.data.valid
                 /\ r.data.invoice_number = parts[3]
                 /\ "checks" \in DOMAIN r.data
                 /\ "invoice_exists" \in DOMAIN r.data.checks
                 /\ r.data.checks.invoice_exists = FALSE )

\* ------------------------------------------------------------------ C15
\* Math.floor(ms / 1000): the epoch seconds of a reading of the clock
EpochSeconds(ms) == ms \div 1000

\* C15: the QR payload of every stored invoice agrees with its record,
\* whatever the clock does between the steps of creation: qr_data split on
\* '|' has exactly 6 fields, and fields 2..5 are the record's
\* invoice_number, its stored total to 2 decimals, the first 8 characters
\* of its current_hash and the epoch seconds of its created_at.
\* (Checked on the records invoices_create appended that have lines, all of
\* positive quantity.)
C15_QrAgreesWithRecord ==
  \A k \in (Len(InitInvoices) + 1)..Len(sampleInvoices) :
    LET inv == sampleInvoices[k]
        parts == Split(inv.qr_data, "|")
    IN ( /\ inv.items # <<>>
         /\ \A i \in 1..Len(inv.items) : inv.items[i].quantity > 0 ) =>
       /\ Len(parts) = 6
       /\ parts[3] = inv.invoice_number
       /\ parts[4] = toFixed2(inv.total)
       /\ parts[5] = slice(inv.current_hash, 8)
       /\ parts[6] = toStringRadix(EpochSeconds(inv.created_at), 10)

\* ------------------------------------------------ the return lifecycle
\* responses i < j are two successful returns on the same invoice number
TwoReturns(i, j) ==
  /\ i < j
  /\ responses[i].op = "invoices_process_return" /\ responses[i].success
  /\ responses[j].op = "invoices_process_return" /\ responses[j].success
  /\ responses[i].args.invoiceNumber = responses[j].args.invoiceNumber

\* the ids of the lines of a record
LineIds(invoice) == {invoice.items[i].id : i \in 1..Len(invoice.items)}

\* ------------------------------------------------------------------ C16
\* C16: invariant I4. A line whose return_status is returned is returned
\* after every step (it never goes back to none), so each line makes the
\* transition none -> returned at most once.
C16_ReturnedIsFinal ==
  [][ \A k \in 1..Len(sampleInvoices) :
        \A i \in 1..Len(sampleInvoices[k].items) :
          sampleInvoices[k].items[i].return_status = "returned"
          => /\ k <= Len(sampleInvoices')
             /\ i <= Len(sampleInvoices'[k].items)
             /\ sampleInvoices'[k].items[i].id = sampleInvoices[k].items[i].id
             /\ sampleInvoices'[k].items[i].return_status = "returned" ]_vars

\* a second return on an invoice has completed without naming a line the
\* first one returned, and that line is still returned
C16_Witness ==
  \E i, j \in 1..Len(responses) :
    /\ TwoReturns(i, j)
    /\ \E l \in 1..Len(Stored(responses[i].args.invoiceNumber).items) :
         LET line == Stored(responses[i].args.invoiceNumber).items[l]
         IN /\ line.id \in responses[i].args.itemIds
            /\ line.id \notin responses[j].args.itemIds
            /\ line.return_status = "returned"

\* ------------------------------------------------------------------ C17
\* C17: invariant I5. A call of invoices_process_return, whether it
\* succeeds or fails, leaves the current_hash, previous_hash and qr_data of
\* every stored invoice unchanged (and stores or drops no record).
C17_ReturnKeepsSeal ==
  [][ Completes("invoices_process_return")
      => /\ Len(sampleInvoices') = Len(sampleInvoices)
         /\ \A k \in 1..Len(sampleInvoices) :
              /\ sampleInvoices'[k].current_hash = sampleInvoices[k].current_hash
              /\ sampleInvoices'[k].previous_hash = sampleInvoices[k].previous_hash
              /\ sampleInvoices'[k].qr_data = sampleInvoices[k].qr_data ]_vars

\* a return that succeeded and one that failed have both completed, and a
\* stored record has a returned line
C17_Witness ==
  /\ \E i \in 1..Len(responses) :
       /\ responses[i].op = "invoices_process_return"
       /\ responses[i].success
       /\ responses[i].data.refund_amount > 0
  /\ \E j \in 1..Len(responses) :
       /\ responses[j].op = "invoices_process_return"
       /\ ~responses[j].success
  /\ \E k \in 1..Len(sampleInvoices) : SomeReturned(sampleInvoices[k].items)

\* ------------------------------------------------------------------ C18
\* the place of a status in the order completed, partial_return, returned
StatusRank(status) ==
  CASE status = "completed" -> 0
    [] status = "partial_return" -> 1
    [] status = "returned" -> 2

\* C18: status only moves forward along completed, partial_return,
\* returned: in every step the status of each stored invoice keeps its
\* place or moves to a later one, so a returned invoice stays returned and
\* partial_return never goes back to completed.
C18_StatusMovesForward ==
  [][ \A k \in 1..Len(sampleInvoices) :
        /\ k <= Len(sampleInvoices')
        /\ StatusRank(sampleInvoices[k].status)
             <= StatusRank(sampleInvoices'[k].status) ]_vars

\* a return naming only some of the lines has completed on an invoice an
\* earlier return had left returned, and the invoice is still returned
C18_Witness ==
  \E i, j \in 1..Len(responses) :
    /\ TwoReturns(i, j)
    /\ responses[i].data.new_status = "returned"
    /\ responses[j].args.itemIds # {}
    /\ ~(LineIds(Stored(responses[j].args.invoiceNumber))
           \subseteq responses[j].args.itemIds)
    /\ Stored(responses[j].args.invoiceNumber).status = "returned"

\* ------------------------------------------------------------------ C19
\* C19: when invoices_process_return completes for an invoice number that
\* no stored invoice has, it fails with the error 'Invoice not found' and
\* every stored invoice and line is as it was.
C19_UnknownInvoiceNotFound ==
  [][ ( /\ Completes("invoices_process_return")
        /\ \A k \in 1..Len(sampleInvoices) :
             sampleInvoices[k].invoice_number # Completed.args.invoiceNumber )
      => ( /\ ~Completed.success
           /\ Completed.error = <<"Invoice not found">>
           /\ sampleInvoices' = sampleInvoices ) ]_vars

\* a return naming lines of an invoice number that is not stored has
\* answered 'Invoice not found'
C19_Witness ==
  \E i \in 1..Len(responses) :
    /\ responses[i].op = "invoices_process_return"
    /\ responses[i].args.itemIds # {}
    /\ \A k \in 1..Len(sampleInvoices) :
         sampleInvoices[k].invoice_number # responses[i].args.invoiceNumber
    /\ ~responses[i].success
    /\ responses[i].error = <<"Invoice not found">>

\* ------------------------------------------------------------------ C20
\* C20: when invoices_process_return succeeds, exactly the requested lines
\* of the invoice are returned afterwards and nothing else of any line or
\* of another record changes, refund_amount is the sum of line_total of
\* the requested lines, and new_status is the status the invoice is stored
\* with after the call.
C20_ReturnEffect ==
  [][ ( Completes("invoices_process_return") /\ Completed.success )
      => LET n == CHOOSE k \in 1..Len(sampleInvoices) :
                    /\ sampleInvoices[k].invoice_number = Completed.args.invoiceNumber
                    /\ \A e \in 1..(k - 1) :
                         sampleInvoices[e].invoice_number
                           # Completed.args.invoiceNumber
             before == sampleInvoices[n].items
             after == sampleInvoices'[n].items
             Requested(line) == line.id \in Completed.args.itemIds
         IN /\ Len(sampleInvoices') = Len(sampleInvoices)
            /\ Len(after) = Len(before)
            /\ \A i \in 1..Len(before) :
                 after[i] = IF Requested(before[i])
                            THEN [before[i] EXCEPT !.return_status = "returned"]
                            ELSE before[i]
            /\ \A m \in 1..Len(sampleInvoices) :
                 m # n => sampleInvoices'[m] = sampleInvoices[m]
            /\ Completed.data.refund_amount
                 = SumLineTotals(SelectSeq(before, Requested))
            /\ Completed.data.new_status = sampleInvoices'[n].status ]_vars

\* a return of the first line alone has succeeded: it answered that line's
\* total and partial_return, and the other line is not returned
C20_Witness ==
  \E i \in 1..Len(responses) :
    LET r == responses[i] IN
    /\ r.op = "invoices_process_return" /\ r.success
    /\ r.args.itemIds = {1}
    /\ r.data.refund_amount = Stored(r.args.invoiceNumber).items[1].line_total
    /\ r.data.new_status = "partial_return"
    /\ Stored(r.args.invoiceNumber).status = "partial_return"
    /\ Stored(r.args.invoiceNumber).items[1].return_status = "returned"
    /\ Stored(r.args.invoiceNumber).items[2].return_status = "none"

\* ------------------------------------------------------------------ C21
\* C21: a return request naming an id that is not a line of the invoice,
\* or with no id matching a line at all, is invalid: when
\* invoices_process_return completes for such a request on a stored
\* invoice, it fails, reports no refund and leaves the store as it was.
C21_StrayLineIdRejected ==
  [][ \A n \in 1..Len(sampleInvoices) :
        ( /\ Completes("invoices_process_return")
          /\ n = FindInvoice(sampleInvoices, Completed.args.invoiceNumber)
          /\ \/ ~(Completed.args.itemIds \subseteq LineIds(sampleInvoices[n]))
             \/ Completed.args.itemIds \cap LineIds(sampleInvoices[n]) = {} )
        => ( /\ ~Completed.success
             /\ "refund_amount" \notin DOMAIN Completed.data
             /\ sampleInvoices' = sampleInvoices ) ]_vars

\* ------------------------------------------------------------------ C22
\* the fields of a record that are frozen at creation
FrozenFields ==
  {"invoice_number", "seller_id", "store_name", "subtotal", "vat_amount",
   "total", "created_at", "current_hash"}

\* C22: the ledger is append-only. In every step (of creation, return,
\* verification, product update or settings update) every stored record
\* stays stored at its place, with the same invoice_number, seller_id,
\* store_name, subtotal, vat_amount, total, created_at and current_hash
\* and the same lines apart from their return_status.
C22_AppendOnly ==
  [][ \A k \in 1..Len(sampleInvoices) :
        /\ k <= Len(sampleInvoices')
        /\ \A f \in FrozenFields : sampleInvoices'[k][f] = sampleInvoices[k][f]
        /\ Len(sampleInvoices'[k].items) = Len(sampleInvoices[k].items)
        /\ \A i \in 1..Len(sampleInvoices[k].items) :
             [sampleInvoices'[k].items[i] EXCEPT
                !.return_status = sampleInvoices[k].items[i].return_status]
               = sampleInvoices[k].items[i] ]_vars

\* the settings or a product changed after a record was stored, and a line
\* of a stored record was returned: the record still carries the store
\* name or the unit price it was created with
C22_Witness ==
  /\ \E k \in 1..Len(sampleInvoices) : SomeReturned(sampleInvoices[k].items)
  /\ \E k \in 1..Len(sampleInvoices) :
       \/ sampleInvoices[k].store_name # mockSettings.store_name
       \/ \E i \in 1..Len(sampleInvoices[k].items) :
            LET line == sampleInvoices[k].items[i]
                n == FindProduct(sampleProducts, line.product_id)
            IN n > 0 /\ sampleProducts[n].price # line.unit_price

\* ------------------------------------------------------------------ C23
RECURSIVE SumLineVat(_)
\* the sum over the lines of line_total * vat_rate / 100
SumLineVat(items) ==
  IF items = <<>> THEN 0
  ELSE (Head(items).line_total * Head(items).vat_rate) \div 100
       + SumLineVat(Tail(items))

\* C23: for every valid request, the record invoices_create answers with
\* has status completed, every line with return_status none and
\* line_total = round2(quantity * unit_price), subtotal = round2 of the
\* sum of the line totals and vat_amount = round2 of the summed line VAT.
C23_TotalsRounded ==
  \A r \in 1..Len(responses) :
    ( /\ responses[r].op = "invoices_create"
      /\ responses[r].success
      /\ ValidRequest(responses[r].args.items) )
    => LET inv == responses[r].data IN
       /\ inv.status = "completed"
       /\ \A i \in 1..Len(inv.items) :
            /\ inv.items[i].return_status = "none"
            /\ inv.items[i].line_total
                 = Round2(inv.items[i].quantity * inv.items[i].unit_price)
       /\ inv.subtotal = Round2(SumLineTotals(inv.items))
       /\ inv.vat_amount = Round2(SumLineVat(inv.items))

\* ------------------------------------------------------------------ C24
\* an amount with at most 2 decimal places
TwoDecimals(x) == x % 1000 = 0

\* C24: every stored invoice has total = subtotal + vat_amount exactly,
\* each of the three with at most 2 decimal places, whatever the prices
\* (also prices with more than 2 decimals), VAT rates and quantities.
C24_TotalIsSum ==
  \A k \in 1..Len(sampleInvoices) :
    /\ TwoDecimals(sampleInvoices[k].subtotal)
    /\ TwoDecimals(sampleInvoices[k].vat_amount)
    /\ TwoDecimals(sampleInvoices[k].total)
    /\ sampleInvoices[k].total
         = sampleInvoices[k].subtotal + sampleInvoices[k].vat_amount

\* ------------------------------------------------------------------ C28
\* the record has lines, all of positive quantity
HasSoldLines(invoice) ==
  /\ invoice.items # <<>>
  /\ \A i \in 1..Len(invoice.items) : invoice.items[i].quantity > 0

\* C28: no two stored invoices have the same current_hash, whatever the
\* timing of the invoices_create calls (also when two creations complete
\* within the same clock tick).
\* (Checked on the records that have lines, all of positive quantity.)
C28_HashesDistinct ==
  \A j, k \in 1..Len(sampleInvoices) :
    ( /\ j # k
      /\ HasSoldLines(sampleInvoices[j])
      /\ HasSoldLines(sampleInvoices[k]) )
    => sampleInvoices[j].current_hash # sampleInvoices[k].current_hash

\* ------------------------------------------------------------------ C25
\* this step is the completion of a handleValidate call
ValidateCompletes ==
  /\ Len(responses') = Len(responses) + 1
  /\ \E k \in 1..Len(pending) :
       /\ "handler" \in DOMAIN pending[k]
       /\ pending[k].handler = "handleValidate"
       /\ pending' = Others(k)

\* C25: a verification always ends with a verdict on screen. Whenever
\* ScanPage.handleValidate completes (it was started on a non-empty
\* input), result is not null, also for a payload for which qr_validate
\* answers success = false.
C25_VerdictShown ==
  [][ ValidateCompletes => scanPage'.result # <<>> ]_vars

\* ------------------------------------------------------------------ C26
\* C26: in ScanPage, after any sequence of validate, toggle, select-all,
\* process-return and reset actions, every id in selectedItems is the id
\* of a line of the displayed invoice with return_status none, and the
\* ids sent with an invoice number are ids of such lines of that invoice.
\* (Checked while an invoice is displayed and no return is being
\* processed.)
C26_SelectionOfDisplayedInvoice ==
  /\ ( scanPage.invoice # <<>> /\ ~scanPage.isProcessingReturn )
       => scanPage.selectedItems \subseteq Selectable
  /\ \A k \in 1..Len(pending) :
       ( /\ "handler" \in DOMAIN pending[k]
         /\ pending[k].handler = "handleProcessReturn"
         /\ FindInvoice(sampleInvoices, pending[k].args.invoiceNumber) > 0 )
       => pending[k].args.itemIds
            \subseteq LineIds(Stored(pending[k].args.invoiceNumber))


\* ------------------------------------------------------------------ C27
\* C27: the settings store's optimistic update converges: once every
\* in-flight updateSetting / updateSettings call has completed, the local
\* settings equal the backend's settings for every key; the revert of a
\* failed call never overwrites a value written by another call that
\* succeeded.
C27_SettingsConverge ==
  StoreCalls = {}
    => \A key \in DOMAIN mockSettings :
         settingsStore.settings[key] = mockSettings[key]

\* ------------------------------------------------------------------ C29
\* C29: the invoice created at checkout charges what the cart displayed:
\* its subtotal, vat_amount and total equal the cart's getSubtotal(),
\* getVatAmount() and getTotal() at the moment of checkout, also when
\* products_update changed a product's price or VAT rate after the product
\* was added to the cart.
\* (Both sides are compared rounded to 2 decimals.)
C29_ChargedAsDisplayed ==
  \A r \in 1..Len(responses) :
    ( /\ "cartItems" \in DOMAIN responses[r]
      /\ responses[r].success )
    => /\ Round2(responses[r].data.subtotal)
            = Round2(getSubtotal(responses[r].cartItems))
       /\ Round2(responses[r].data.vat_amount)
            = Round2(getVatAmount(responses[r].cartItems))
       /\ Round2(responses[r].data.total)
            = Round2(getTotal(responses[r].cartItems))

\* ------------------------------------------------------------------ C30
\* the units of the cart, counted entry by entry
CartUnits(items) ==
  Cardinality({ u \in (1..Len(items)) \X (1..(MaxCartQuantity + 2)) :
                  u[2] <= items[u[1]].quantity })

\* C30: after any sequence of addItem (with a positive quantity),
\* removeItem, updateQuantity and clearCart, the cart holds at most one
\* entry per product id and every entry has quantity >= 1; updateQuantity
\* with a quantity <= 0 removes the entry, and getItemCount equals the sum
\* of the entries' quantities.
C30_CartEntries ==
  LET items == cartStore.items IN
  /\ \A i, j \in 1..Len(items) :
       items[i].product.id = items[j].product.id => i = j
  /\ \A i \in 1..Len(items) : items[i].quantity >= 1
  /\ \A productId \in CartProductIds, quantity \in UpdateQuantities :
       quantity <= 0
         => FindItem(UpdateQuantity(items, productId, quantity), productId) = 0
  /\ getItemCount(items) = CartUnits(items)

\* a cart of two entries, one of them of a product whose price changed
\* after it was added, holding three units
C30_Witness ==
  /\ Len(cartStore.items) = 2
  /\ getItemCount(cartStore.items) = 3
  /\ \E i \in 1..Len(cartStore.items) :
       cartStore.items[i].product
         # sampleProducts[FindProduct(sampleProducts, cartStore.items[i].product.id)]

============================================================================
